---- MODULE Spec2Model ----
(***************************************************************************)
(* Model of the LiMAX17048G fuel-gauge driver (LiMAX17048G.cpp / .h).      *)
(*                                                                         *)
(* The driver is a class whose methods talk to the gauge over the two-wire *)
(* bus.  The model has one step per bus transaction of each method (a      *)
(* beginTransmission..endTransmission group, or a requestFrom with the     *)
(* Wire.read() calls that consume it), a call stack for the methods that   *)
(* call other methods, the CONFIG register of the gauge, and a log of the  *)
(* bus transactions of the call in progress.                               *)
(***************************************************************************)
EXTENDS Integers, Sequences, FiniteSets, TLC

VARIABLES
    ic,         \* _ic: the gauge type given to the constructor (1 or 2)
    devRcomp,   \* gauge: CONFIG register, MSB (RCOMP)
    devStatus,  \* gauge: CONFIG register, LSB (sleep, alert, threshold)
    devPtr,     \* gauge: register pointer set by the last pointer write,
                \* Unknown once another transaction has followed it
    pc,         \* position of the driver: "idle", the next step of the
                \* method running, or "returned" when the call has returned
    stack,      \* labels to continue at when the running method returns
    retv,       \* value returned by the method that returned last
    comp,       \* local: MSB of getCompensation, which its callers keep as
                \* compensation; comp of setAlertThreshold
    thrd,       \* local: thrd of setAlertThreshold, after lines 120-122
    sleepBit,   \* local: sleepBit of setAlertThreshold
    op,         \* the public method called ("none" before the first call and
                \* once the sketch has gone on)
    arg,        \* its argument (0 when it has none)
    pre,        \* CONFIG register when it was called
    log,        \* bus transactions of that call, in order
    isr,        \* the methods the alert callback has run during that call
    saved,      \* while the callback runs: where the interrupted method
                \* stood and its locals (NoFrame: the callback is not running)
    wire        \* the transaction of the interrupted method the callback fell
                \* into, and what is left of Wire's buffer for it

vars == <<ic, devRcomp, devStatus, devPtr, pc, stack, retv, comp, thrd,
          sleepBit, op, arg, pre, log, isr, saved, wire>>

dev == <<devRcomp, devStatus, devPtr>>
call == <<ic, op, arg, pre, isr, saved>>

(***************************************************************************)
(* Constants of LiMAX17048G.h                                              *)
(***************************************************************************)
MAX17048 == 1
MAX17049 == 2
MAX1704X_ADDR == 54
MAX1704X_VCELL_ADDR == 2
MAX1704X_SOC_ADDR == 4
MAX1704X_MODE_ADDR == 6
MAX1704X_VERSION_ADDR == 8
MAX1704X_CONFIG_ADDR == 12
MAX1704X_RCOMP_ADDR == 12
MAX1704X_ATHRD_ADDR == 13
MAX1704X_COMMAND_ADDR == 254

(***************************************************************************)
(* Bounds of the model                                                     *)
(***************************************************************************)
\* Number of bus transactions that may fail within one call.
MaxFaults == 1
\* Number of sample bytes used for measurement registers, for compensation
\* values and for what a read at a stale register pointer returns.
NumSamples == 2

SampleList == <<128, 0, 50, 255, 15, 90>>
SampleBytes == {SampleList[i] : i \in 1..NumSamples}

\* Power-on value of the CONFIG register: RCOMP 0x97, threshold 4 % (line 117).
DefaultRcomp == 151
DefaultStatus == 28

\* Compensation bytes the register starts with and setCompensation is given.
CompValues == {DefaultRcomp} \cup SampleBytes
\* Arguments given to setAlertThreshold.
ThresholdArgs == {0, 1, 4, 10, 31, 32, 33, 255}
\* Non-zero completion code of Wire.endTransmission used by the model
\* (2: the gauge did not acknowledge its address).
FailCodes == {2}

(***************************************************************************)
(* Byte arithmetic                                                         *)
(***************************************************************************)
\* Conversion of an int to uint8_t / byte.
Byte(x) == x % 256

RECURSIVE BitAndN(_, _, _)
BitAndN(a, b, n) ==
    IF n = 0 THEN 0
    ELSE (a % 2) * (b % 2) + 2 * BitAndN(a \div 2, b \div 2, n - 1)

RECURSIVE BitOrN(_, _, _)
BitOrN(a, b, n) ==
    IF n = 0 THEN 0
    ELSE (IF (a % 2) + (b % 2) > 0 THEN 1 ELSE 0)
         + 2 * BitOrN(a \div 2, b \div 2, n - 1)

\* a & b and a | b on the low 8 bits; every mask of the driver fits a byte
\* and every result is stored in or sent as a byte.
BitAnd(a, b) == BitAndN(Byte(a), Byte(b), 8)
BitOr(a, b) == BitOrN(Byte(a), Byte(b), 8)
\* ~a on an int.
BitNot(a) == -a - 1

(***************************************************************************)
(* Pure parts of the methods                                               *)
(***************************************************************************)
\* setAlertThreshold, lines 120-122: clamp to 1..32, two's complement, 5 bits.
ClampThreshold(t) == IF t > 32 THEN 32 ELSE IF t < 1 THEN 1 ELSE t
EncodeThreshold(t) == BitAnd(BitNot(ClampThreshold(t)) + 1, 31)

\* Variant: the mask of line 90 is 0x3F.
DecodeThreshold_WideMask(s) == Byte(BitAnd(BitNot(s), 63) + 1)
\* Variant: the + 1 of line 90 is left out.
DecodeThreshold_NoPlusOne(s) == Byte(BitAnd(BitNot(s), 31))
\* getAlertThreshold, line 90, applied to the byte getStatus returned.
DecodeThreshold(s) == Byte(BitAnd(BitNot(s), 31) + 1)

\* setAlertThreshold, line 130: the sleep bit of the status byte read, and
\* line 135: the status byte written.
SleepBitOf(b) == BitAnd(b, 128)
\* Variant: the sleep bit is left out of the byte written.
ThresholdStatusByte_NoSleepBit(sb, t) == t
ThresholdStatusByte(sb, t) == BitOr(sb, t)

\* Variant: the mask of line 148 keeps the threshold bits only.
ClearAlertStatusByte_WideMask(s) == BitAnd(31, s)
\* clearAlertInterrupt, line 148.
ClearAlertStatusByte(s) == BitAnd(223, s)

\* Variant: the mask of line 175 is 0x0F.
WakeStatusByte_NarrowMask(threshold) == BitAnd(15, threshold)

\* Variant: line 162 sets bit 6 instead of bit 7.
SleepStatusByte_WrongBit(threshold) == BitOr(64, threshold)
\* sleep, line 162, and wake, line 175: threshold is what getAlertThreshold
\* returned.
SleepStatusByte(threshold) == BitOr(128, threshold)
WakeStatusByte(threshold) == BitAnd(127, threshold)

\* sleeping, line 182.
SleepingValue(s) == BitAnd(s, 128) = 128

(***************************************************************************)
(* The bus and the gauge                                                   *)
(***************************************************************************)
Unknown == -1

Failures == Len(SelectSeq(log, LAMBDA e : ~e.ok))

\* Completion codes Wire.endTransmission may return at this point.
WriteOutcomes == {0} \cup (IF Failures < MaxFaults THEN FailCodes ELSE {})
\* The numbers of bytes Wire.requestFrom(MAX1704X_ADDR, n) may get at this
\* point: all n, or fewer when the read fails or is cut short.
ReadOutcomes(n) == {n} \cup (IF Failures < MaxFaults THEN 0..(n - 1) ELSE {})

\* The bytes the gauge may return for register address a.  The CONFIG
\* register returns what it holds; the measurement and version registers,
\* and whatever a stale pointer points at, return bytes the driver does
\* not determine.
ReadByteAt(a) ==
    IF a = MAX1704X_RCOMP_ADDR THEN {devRcomp}
    ELSE IF a = MAX1704X_ATHRD_ADDR THEN {devStatus}
    ELSE SampleBytes

NextAddr(a) == IF a = Unknown THEN Unknown ELSE a + 1

\* The byte sequences a read of n bytes (n is 1 or 2) may return.
DeviceRead(n) ==
    IF n = 1 THEN {<<b>> : b \in ReadByteAt(devPtr)}
    ELSE {<<b1, b2>> : b1 \in ReadByteAt(devPtr),
                       b2 \in ReadByteAt(NextAddr(devPtr))}

\* The gauge after a write transaction that completed.  The first byte sets
\* the register pointer; two data bytes to CONFIG set the register, 0x5400
\* to COMMAND resets the gauge to its power-on values, 0x4000 to MODE
\* restarts the estimate and leaves CONFIG alone.
GaugeWrite(bytes) ==
    IF Len(bytes) = 1
    THEN [rcomp |-> devRcomp, status |-> devStatus, ptr |-> bytes[1]]
    ELSE IF bytes[1] = MAX1704X_CONFIG_ADDR
    THEN [rcomp |-> bytes[2], status |-> bytes[3], ptr |-> Unknown]
    ELSE IF bytes[1] = MAX1704X_COMMAND_ADDR /\ bytes[2] = 84 /\ bytes[3] = 0
    THEN [rcomp |-> DefaultRcomp, status |-> DefaultStatus, ptr |-> Unknown]
    ELSE [rcomp |-> devRcomp, status |-> devStatus, ptr |-> Unknown]

\* The callback is not running.
NoFrame == [pc |-> "none", stack |-> <<>>, retv |-> 0, comp |-> 0, thrd |-> 0,
            sleepBit |-> 0]

\* No transaction of the running method has been cut by the callback.
NoWire == [kind |-> "none", left |-> <<>>]

\* The callback ran between the beginTransmission and the endTransmission of
\* the transaction the method is in: the callback's own transactions used the
\* one transmit buffer of Wire and left it empty and closed, so the writes of
\* the method are dropped and its endTransmission sends the address alone.
TxCut == saved = NoFrame /\ wire.kind = "tx"

\* The callback ran after the requestFrom of the transaction the method is
\* in: the callback's own reads used the one receive buffer of Wire and left
\* it empty, so the method has the bytes it had read before, wire.left.
RxCut == saved = NoFrame /\ wire.kind = "rx"

\* A write transaction (beginTransmission, the writes, endTransmission) that
\* ends with completion code c.  A transaction that does not complete, or
\* that carries no byte, leaves the gauge as it was.
Transmit(bytes, stop, c) ==
    LET sent == IF TxCut THEN <<>> ELSE bytes
    IN /\ log' = Append(log, [kind |-> "write", bytes |-> sent, stop |-> stop,
                              n |-> 0, code |-> c, ok |-> (c = 0),
                              cb |-> (saved # NoFrame)])
       /\ IF c # 0 \/ sent = <<>> THEN UNCHANGED <<devRcomp, devStatus, devPtr>>
          ELSE /\ devRcomp' = GaugeWrite(sent).rcomp
               /\ devStatus' = GaugeWrite(sent).status
               /\ devPtr' = GaugeWrite(sent).ptr
       /\ wire' = IF saved = NoFrame THEN NoWire ELSE wire

\* Wire.requestFrom(MAX1704X_ADDR, n) that makes the bytes got available.
\* When the callback ran after the requestFrom, the request has been made
\* already: nothing more happens on the bus.
Request(n, got) ==
    /\ IF RxCut THEN UNCHANGED <<log, devPtr>>
       ELSE /\ log' = Append(log, [kind |-> "read", bytes |-> got,
                                   stop |-> TRUE, n |-> n, code |-> 0,
                                   ok |-> (Len(got) = n),
                                   cb |-> (saved # NoFrame)])
            /\ devPtr' = Unknown
    /\ wire' = IF saved = NoFrame THEN NoWire ELSE wire
    /\ UNCHANGED <<devRcomp, devStatus>>

\* The byte sequences requestFrom may deliver: the first k bytes of what the
\* gauge returns.
Deliveries(n) ==
    {SubSeq(full, 1, k) : full \in DeviceRead(n), k \in ReadOutcomes(n)}

\* What the running method has to read after its requestFrom(MAX1704X_ADDR, n).
Available(n) == IF RxCut THEN {wire.left} ELSE Deliveries(n)

\* The i-th Wire.read() after a requestFrom that delivered got: the byte, or
\* -1 when the buffer is empty.
WireRead(got, i) == IF i <= Len(got) THEN got[i] ELSE -1

\* Variant: the endTransmission that closes a write transaction is left out.
WireCalls_NoEnd(e) ==
    IF e.kind = "write"
    THEN <<[call |-> "beginTransmission", addr |-> MAX1704X_ADDR, val |-> 0]>>
         \o [i \in 1..Len(e.bytes) |->
                [call |-> "write", addr |-> MAX1704X_ADDR, val |-> e.bytes[i]]]
    ELSE <<[call |-> "requestFrom", addr |-> MAX1704X_ADDR, val |-> e.n]>>

\* The calls of the Wire library a logged transaction e consists of: a write
\* transaction is beginTransmission(MAX1704X_ADDR), one write per byte and
\* endTransmission (val 1: with a stop, 0: without); a read is
\* requestFrom(MAX1704X_ADDR, n).
WireCalls(e) ==
    IF e.kind = "write"
    THEN <<[call |-> "beginTransmission", addr |-> MAX1704X_ADDR, val |-> 0]>>
         \o [i \in 1..Len(e.bytes) |->
                [call |-> "write", addr |-> MAX1704X_ADDR, val |-> e.bytes[i]]]
         \o <<[call |-> "endTransmission", addr |-> MAX1704X_ADDR,
               val |-> IF e.stop THEN 1 ELSE 0]>>
    ELSE <<[call |-> "requestFrom", addr |-> MAX1704X_ADDR, val |-> e.n]>>

\* The return of the running method with value v.
Return(v) ==
    /\ retv' = v
    /\ IF stack = <<>> THEN pc' = "returned" /\ stack' = stack
       ELSE pc' = Head(stack) /\ stack' = Tail(stack)

\* A call of a public method from the sketch.
Enter(name, a, first, rest) ==
    /\ pc = "idle"
    /\ op' = name
    /\ arg' = a
    /\ pre' = [rcomp |-> devRcomp, status |-> devStatus]
    /\ log' = <<>>
    /\ pc' = first
    /\ stack' = rest
    /\ retv' = 0
    /\ comp' = 0
    /\ sleepBit' = 0
    /\ isr' = <<>>
    /\ UNCHANGED <<ic, devRcomp, devStatus, devPtr, saved, wire>>

(***************************************************************************)
(* reset and quickStart, lines 187-204                                     *)
(***************************************************************************)
reset ==
    /\ Enter("reset", 0, "reset", <<>>)
    /\ thrd' = 0

reset_send ==
    /\ pc = "reset"
    /\ \E c \in WriteOutcomes :
          /\ Transmit(<<MAX1704X_COMMAND_ADDR, 84, 0>>, TRUE, c)
          /\ Return(c)
    /\ UNCHANGED <<call, comp, thrd, sleepBit>>

quickStart ==
    /\ Enter("quickStart", 0, "quickStart", <<>>)
    /\ thrd' = 0

\* Variant: the two bytes of the command are sent low byte first.
quickStart_send_Swapped ==
    /\ pc = "quickStart"
    /\ \E c \in WriteOutcomes :
          /\ Transmit(<<MAX1704X_MODE_ADDR, 0, 64>>, TRUE, c)
          /\ Return(c)
    /\ UNCHANGED <<call, comp, thrd, sleepBit>>

quickStart_send ==
    /\ pc = "quickStart"
    /\ \E c \in WriteOutcomes :
          /\ Transmit(<<MAX1704X_MODE_ADDR, 64, 0>>, TRUE, c)
          /\ Return(c)
    /\ UNCHANGED <<call, comp, thrd, sleepBit>>

(***************************************************************************)
(* getVoltage, lines 37-46, and getSOC, lines 50-59                        *)
(***************************************************************************)
\* A write of the register pointer reg alone, then on to the step next.
PointerWrite(reg, stop, next) ==
    /\ \E c \in WriteOutcomes : Transmit(<<reg>>, stop, c)
    /\ pc' = next
    /\ UNCHANGED <<call, stack, retv, comp, thrd, sleepBit>>

\* Variant: the first byte read is taken for the low bits.
VoltageValue_Swapped(hi, lo, type) == ((lo * 16) + (hi \div 16)) * 1250 * type
\* Line 45: (hi << 4) + (lo >> 4), times 0.00125 V times _ic, in microvolts;
\* hi is the first Wire.read(), the left operand, lo the second.
VoltageValue(hi, lo, type) == ((hi * 16) + (lo \div 16)) * 1250 * type

\* Variant: the first byte read is taken for the fraction.
SOCValue_Swapped(hi, lo) == 256 * lo + hi
\* Line 58: hi + lo / 256, in units of 1/256 percent; hi is the first
\* Wire.read(), the left operand, lo the second.
SOCValue(hi, lo) == 256 * hi + lo

\* Variant: line 39 is left out.
getVoltage_NoReset ==
    /\ Enter("getVoltage", 0, "quickStart", <<"getVoltage_ptr">>)
    /\ thrd' = 0

getVoltage ==
    /\ Enter("getVoltage", 0, "reset", <<"quickStart", "getVoltage_ptr">>)
    /\ thrd' = 0

getVoltage_ptr ==
    /\ pc = "getVoltage_ptr"
    /\ PointerWrite(MAX1704X_VCELL_ADDR, TRUE, "getVoltage_req")

getVoltage_req ==
    /\ pc = "getVoltage_req"
    /\ \E got \in Available(2) :
          /\ Request(2, got)
          /\ Return(VoltageValue(WireRead(got, 1), WireRead(got, 2), ic))
    /\ UNCHANGED <<call, comp, thrd, sleepBit>>

\* Variant: line 52 is left out.
getSOC_NoReset ==
    /\ Enter("getSOC", 0, "quickStart", <<"getSOC_ptr">>)
    /\ thrd' = 0

getSOC ==
    /\ Enter("getSOC", 0, "reset", <<"quickStart", "getSOC_ptr">>)
    /\ thrd' = 0

getSOC_ptr ==
    /\ pc = "getSOC_ptr"
    /\ PointerWrite(MAX1704X_SOC_ADDR, TRUE, "getSOC_req")

getSOC_req ==
    /\ pc = "getSOC_req"
    /\ \E got \in Available(2) :
          /\ Request(2, got)
          /\ Return(SOCValue(WireRead(got, 1), WireRead(got, 2)))
    /\ UNCHANGED <<call, comp, thrd, sleepBit>>

(***************************************************************************)
(* getVersion, lines 62-73                                                 *)
(***************************************************************************)
\* Line 72: ( MSB << 8 ) + LSB in an int.  Where int has 16 bits a value of
\* 0x8000 or more does not fit: the build yields either the value or the
\* value wrapped to 16 bits.
VersionValues(MSB, LSB) ==
    LET v == MSB * 256 + LSB
    IN  {v} \cup (IF v >= 32768 THEN {v - 65536} ELSE {})

\* Variant: the version is read after a reset, as the measurements are.
getVersion_WithReset ==
    /\ Enter("getVersion", 0, "reset", <<"getVersion_ptr">>)
    /\ thrd' = 0

getVersion ==
    /\ Enter("getVersion", 0, "getVersion_ptr", <<>>)
    /\ thrd' = 0

getVersion_ptr ==
    /\ pc = "getVersion_ptr"
    /\ PointerWrite(MAX1704X_VERSION_ADDR, TRUE, "getVersion_req")

getVersion_req ==
    /\ pc = "getVersion_req"
    /\ \E got \in Available(2) :
          /\ Request(2, got)
          /\ \E v \in VersionValues(Byte(WireRead(got, 1)),
                                    Byte(WireRead(got, 2))) : Return(v)
    /\ UNCHANGED <<call, comp, thrd, sleepBit>>

(***************************************************************************)
(* getCompensation, lines 76-85                                            *)
(***************************************************************************)
getCompensation ==
    /\ Enter("getCompensation", 0, "getCompensation_ptr", <<>>)
    /\ thrd' = 0

getCompensation_ptr ==
    /\ pc = "getCompensation_ptr"
    /\ PointerWrite(MAX1704X_RCOMP_ADDR, TRUE, "getCompensation_req")

getCompensation_req ==
    /\ pc = "getCompensation_req"
    /\ \E got \in Available(2) :
          /\ Request(2, got)
          /\ comp' = Byte(WireRead(got, 1))
          /\ Return(Byte(WireRead(got, 1)))
    /\ UNCHANGED <<call, thrd, sleepBit>>

(***************************************************************************)
(* getStatus, lines 94-101, getAlertThreshold, lines 88-91, and sleeping,  *)
(* lines 180-183                                                           *)
(***************************************************************************)
getStatus_ptr ==
    /\ pc = "getStatus_ptr"
    /\ PointerWrite(MAX1704X_ATHRD_ADDR, TRUE, "getStatus_req")

getStatus_req ==
    /\ pc = "getStatus_req"
    /\ \E got \in Available(1) :
          /\ Request(1, got)
          /\ Return(Byte(WireRead(got, 1)))
    /\ UNCHANGED <<call, comp, thrd, sleepBit>>

getAlertThreshold ==
    /\ Enter("getAlertThreshold", 0, "getStatus_ptr", <<"getAlertThreshold_ret">>)
    /\ thrd' = 0

\* Line 90, once getStatus has returned.
getAlertThreshold_ret ==
    /\ pc = "getAlertThreshold_ret"
    /\ Return(DecodeThreshold(retv))
    /\ UNCHANGED <<call, dev, comp, thrd, sleepBit, log, wire>>

sleeping ==
    /\ Enter("sleeping", 0, "getStatus_ptr", <<"sleeping_ret">>)
    /\ thrd' = 0

\* Line 182, once getStatus has returned.
sleeping_ret ==
    /\ pc = "sleeping_ret"
    /\ Return(SleepingValue(retv))
    /\ UNCHANGED <<call, dev, comp, thrd, sleepBit, log, wire>>

(***************************************************************************)
(* setCompensation, lines 105-114                                          *)
(***************************************************************************)
\* Variant: a failed write is reported as 1 instead of its completion code.
ConfigWrite_FlagOnly(msb, lsb) ==
    /\ \E c \in WriteOutcomes :
          /\ Transmit(<<MAX1704X_CONFIG_ADDR, msb, lsb>>, TRUE, c)
          /\ Return(IF c = 0 THEN 0 ELSE 1)
    /\ UNCHANGED <<call, comp, thrd, sleepBit>>

\* A write of two data bytes to CONFIG, whose completion code is returned.
ConfigWrite(msb, lsb) ==
    /\ \E c \in WriteOutcomes :
          /\ Transmit(<<MAX1704X_CONFIG_ADDR, msb, lsb>>, TRUE, c)
          /\ Return(c)
    /\ UNCHANGED <<call, comp, thrd, sleepBit>>

setCompensation(v) ==
    /\ Enter("setCompensation", v, "getStatus_ptr", <<"setCompensation_write">>)
    /\ thrd' = 0

\* Variant: line 112 writes a zero status byte.
setCompensation_write_ZeroStatus ==
    /\ pc = "setCompensation_write"
    /\ ConfigWrite(arg, 0)

\* Lines 109-113; status is what getStatus returned.
setCompensation_write ==
    /\ pc = "setCompensation_write"
    /\ ConfigWrite(arg, retv)

(***************************************************************************)
(* setAlertThreshold, lines 118-137                                        *)
(***************************************************************************)
setAlertThreshold(t) ==
    /\ Enter("setAlertThreshold", t, "setAlertThreshold_ptr", <<>>)
    /\ thrd' = EncodeThreshold(t)

\* Lines 125-127.
setAlertThreshold_ptr ==
    /\ pc = "setAlertThreshold_ptr"
    /\ PointerWrite(MAX1704X_CONFIG_ADDR, FALSE, "setAlertThreshold_req")

\* Lines 128-130.
setAlertThreshold_req ==
    /\ pc = "setAlertThreshold_req"
    /\ \E got \in Available(2) :
          /\ Request(2, got)
          /\ comp' = Byte(WireRead(got, 1))
          /\ sleepBit' = SleepBitOf(WireRead(got, 2))
    /\ pc' = "setAlertThreshold_write"
    /\ UNCHANGED <<call, stack, retv, thrd>>

\* Lines 132-136.
setAlertThreshold_write ==
    /\ pc = "setAlertThreshold_write"
    /\ ConfigWrite(comp, ThresholdStatusByte(sleepBit, thrd))

(***************************************************************************)
(* clearAlertInterrupt, lines 141-150                                      *)
(***************************************************************************)
clearAlertInterrupt ==
    /\ Enter("clearAlertInterrupt", 0, "getCompensation_ptr",
             <<"getStatus_ptr", "clearAlertInterrupt_write">>)
    /\ thrd' = 0

\* Lines 145-149; status is what getStatus returned.
clearAlertInterrupt_write ==
    /\ pc = "clearAlertInterrupt_write"
    /\ ConfigWrite(comp, ClearAlertStatusByte(retv))

(***************************************************************************)
(* sleep, lines 154-164, and wake, lines 167-177                           *)
(***************************************************************************)
sleep ==
    /\ Enter("sleep", 0, "getCompensation_ptr",
             <<"getStatus_ptr", "getAlertThreshold_ret", "sleep_write">>)
    /\ thrd' = 0

\* Lines 159-163; threshold is what getAlertThreshold returned.
sleep_write ==
    /\ pc = "sleep_write"
    /\ ConfigWrite(comp, SleepStatusByte(retv))

wake ==
    /\ Enter("wake", 0, "getCompensation_ptr",
             <<"getStatus_ptr", "getAlertThreshold_ret", "wake_write">>)
    /\ thrd' = 0

\* Lines 172-176; threshold is what getAlertThreshold returned.
wake_write ==
    /\ pc = "wake_write"
    /\ ConfigWrite(comp, WakeStatusByte(retv))

(***************************************************************************)
(* The sketch                                                              *)
(***************************************************************************)
\* The sketch goes on after a call: the value returned and the locals of the
\* call are gone.
discard ==
    /\ pc = "returned"
    /\ pc' = "idle"
    /\ op' = "none"
    /\ arg' = 0
    /\ pre' = [rcomp |-> devRcomp, status |-> devStatus]
    /\ log' = <<>>
    /\ retv' = 0
    /\ comp' = 0
    /\ thrd' = 0
    /\ sleepBit' = 0
    /\ isr' = <<>>
    /\ UNCHANGED <<ic, dev, stack, saved, wire>>

(***************************************************************************)
(* Specification                                                           *)
(***************************************************************************)
\* The constructors, lines 21-32: the driver holds the gauge type; the gauge
\* holds whatever CONFIG value it had.
Init ==
    /\ ic \in {MAX17048, MAX17049}
    /\ devRcomp \in CompValues
    /\ devStatus \in 0..255
    /\ devPtr = Unknown
    /\ pc = "idle"
    /\ stack = <<>>
    /\ retv = 0
    /\ comp = 0
    /\ thrd = 0
    /\ sleepBit = 0
    /\ op = "none"
    /\ arg = 0
    /\ pre = [rcomp |-> devRcomp, status |-> devStatus]
    /\ log = <<>>
    /\ isr = <<>>
    /\ saved = NoFrame
    /\ wire = NoWire

Next ==
    \/ reset \/ reset_send
    \/ quickStart \/ quickStart_send
    \/ getVoltage \/ getVoltage_ptr \/ getVoltage_req
    \/ getSOC \/ getSOC_ptr \/ getSOC_req
    \/ getVersion \/ getVersion_ptr \/ getVersion_req
    \/ getCompensation \/ getCompensation_ptr \/ getCompensation_req
    \/ getStatus_ptr \/ getStatus_req
    \/ getAlertThreshold \/ getAlertThreshold_ret
    \/ sleeping \/ sleeping_ret
    \/ \E v \in CompValues : setCompensation(v)
    \/ setCompensation_write
    \/ \E t \in ThresholdArgs : setAlertThreshold(t)
    \/ setAlertThreshold_ptr \/ setAlertThreshold_req \/ setAlertThreshold_write
    \/ clearAlertInterrupt \/ clearAlertInterrupt_write
    \/ sleep \/ sleep_write
    \/ wake \/ wake_write
    \/ discard

Spec == Init /\ [][Next]_vars

(***************************************************************************)
(* sleep() followed at once by wake() and getAlertThreshold()              *)
(***************************************************************************)
\* A sketch calls sleep(), wake() and getAlertThreshold() one after the
\* other; pre is the CONFIG register before sleep(), log the transactions of
\* the three calls, the value returned that of getAlertThreshold().
sleep_wake ==
    /\ Enter("sleep_wake", 0, "getCompensation_ptr",
             <<"getStatus_ptr", "getAlertThreshold_ret", "sleep_write",
               "getCompensation_ptr", "getStatus_ptr", "getAlertThreshold_ret",
               "wake_write",
               "getStatus_ptr", "getAlertThreshold_ret">>)
    /\ thrd' = 0

PairNext ==
    \/ sleep_wake
    \/ getCompensation_ptr \/ getCompensation_req
    \/ getStatus_ptr \/ getStatus_req
    \/ getAlertThreshold_ret
    \/ sleep_write \/ wake_write
    \/ discard

SpecPair == Init /\ [][PairNext]_vars

(***************************************************************************)
(* The alert callback                                                      *)
(***************************************************************************)
\* CONFIG register after the configuration-writing method name(a) has run
\* from cfg with every bus transaction completing.
Effect(name, a, cfg) ==
    CASE name = "setCompensation" ->
            [rcomp |-> a, status |-> cfg.status]
      [] name = "setAlertThreshold" ->
            [rcomp |-> cfg.rcomp,
             status |-> ThresholdStatusByte(SleepBitOf(cfg.status),
                                            EncodeThreshold(a))]
      [] name = "clearAlertInterrupt" ->
            [rcomp |-> cfg.rcomp, status |-> ClearAlertStatusByte(cfg.status)]
      [] name = "sleep" ->
            [rcomp |-> cfg.rcomp,
             status |-> SleepStatusByte(DecodeThreshold(cfg.status))]
      [] name = "wake" ->
            [rcomp |-> cfg.rcomp,
             status |-> WakeStatusByte(DecodeThreshold(cfg.status))]
      [] OTHER -> cfg

\* The most runs of the callback during one call of a method.
MaxIsrRuns == 2

\* The configuration-writing calls the callback may make.
IsrCalls ==
    {[name |-> "clearAlertInterrupt", arg |-> 0],
     [name |-> "sleep", arg |-> 0]}

\* What the method the callback calls does after its first step,
\* getCompensation: lines 143-149 and 156-163.
IsrPlan(name) ==
    IF name = "clearAlertInterrupt"
    THEN <<"getStatus_ptr", "clearAlertInterrupt_write">>
    ELSE <<"getStatus_ptr", "getAlertThreshold_ret", "sleep_write">>

\* The alert pin falls and the callback attached by the constructor calls c.
\* The interrupted method stands still, with its locals, until the callback
\* returns; the callback is not interrupted itself.  The steps of c are the
\* steps of the method, taken one by one, and fail as they do.
Fire(c) ==
    /\ saved = NoFrame
    /\ Len(isr) < MaxIsrRuns
    /\ isr' = Append(isr, c)
    /\ saved' = [pc |-> pc, stack |-> stack, retv |-> retv, comp |-> comp,
                 thrd |-> thrd, sleepBit |-> sleepBit]
    /\ pc' = "getCompensation_ptr"
    /\ stack' = IsrPlan(c.name) \o <<"isr_return">>
    /\ retv' = 0
    /\ comp' = 0
    /\ thrd' = 0
    /\ sleepBit' = 0

\* The steps that are a write transaction, and the steps that are a
\* requestFrom with its Wire.read() calls.
WriteSteps ==
    {"reset", "quickStart", "getVoltage_ptr", "getSOC_ptr", "getVersion_ptr",
     "getCompensation_ptr", "getStatus_ptr", "setCompensation_write",
     "setAlertThreshold_ptr", "setAlertThreshold_write",
     "clearAlertInterrupt_write", "sleep_write", "wake_write"}

ReadSteps ==
    {"getVoltage_req", "getSOC_req", "getVersion_req", "getCompensation_req",
     "getStatus_req", "setAlertThreshold_req"}

\* The bytes the step asks for, and the Wire.read() calls it makes.
Requested(step) == IF step = "getStatus_req" THEN 1 ELSE 2
Reads(step) == IF step \in {"getStatus_req", "getCompensation_req"} THEN 1 ELSE 2

\* The pin falls between two bus transactions of a method, before its first
\* or after its last.
interrupt ==
    /\ pc \notin {"idle", "codec", "encoded", "decoded"}
    /\ \E c \in IsrCalls : Fire(c)
    /\ UNCHANGED <<ic, op, arg, pre, dev, log, wire>>

\* The pin falls between the beginTransmission and the endTransmission of a
\* write transaction.
interrupt_tx ==
    /\ pc \in WriteSteps
    /\ wire = NoWire
    /\ \E c \in IsrCalls : Fire(c)
    /\ wire' = [kind |-> "tx", left |-> <<>>]
    /\ UNCHANGED <<ic, op, arg, pre, dev, log>>

\* The pin falls after the requestFrom of a read, which has delivered got,
\* and k of the Wire.read() calls that follow it.
interrupt_rx ==
    /\ pc \in ReadSteps
    /\ wire = NoWire
    /\ \E got \in Deliveries(Requested(pc)), k \in 0..(Reads(pc) - 1) :
          /\ log' = Append(log, [kind |-> "read", bytes |-> got,
                                 stop |-> TRUE, n |-> Requested(pc),
                                 code |-> 0, ok |-> (Len(got) = Requested(pc)),
                                 cb |-> FALSE])
          /\ wire' = [kind |-> "rx",
                      left |-> SubSeq(got, 1, IF k <= Len(got) THEN k
                                               ELSE Len(got))]
    /\ devPtr' = Unknown
    /\ \E c \in IsrCalls : Fire(c)
    /\ UNCHANGED <<ic, op, arg, pre, devRcomp, devStatus>>

\* The callback returns: the interrupted method goes on where it stood.
isr_return ==
    /\ pc = "isr_return"
    /\ pc' = saved.pc
    /\ stack' = saved.stack
    /\ retv' = saved.retv
    /\ comp' = saved.comp
    /\ thrd' = saved.thrd
    /\ sleepBit' = saved.sleepBit
    /\ saved' = NoFrame
    /\ UNCHANGED <<ic, op, arg, pre, isr, dev, log, wire>>

\* The configurations the gauge is in when the method is called, and the
\* arguments of the call.
IsrStatuses == {28, 60, 156, 255}
IsrCompArgs == {0}
IsrThresholdArgs == {10}

\* One call of a method on a gauge constructed with a callback; what the
\* gauge holds at the call stands for what earlier calls left.
IsrNext ==
    \/ reset \/ reset_send
    \/ quickStart \/ quickStart_send
    \/ getVoltage \/ getVoltage_ptr \/ getVoltage_req
    \/ getSOC \/ getSOC_ptr \/ getSOC_req
    \/ getVersion \/ getVersion_ptr \/ getVersion_req
    \/ getCompensation \/ getCompensation_ptr \/ getCompensation_req
    \/ getStatus_ptr \/ getStatus_req
    \/ getAlertThreshold \/ getAlertThreshold_ret
    \/ sleeping \/ sleeping_ret
    \/ \E v \in IsrCompArgs : setCompensation(v)
    \/ setCompensation_write
    \/ \E t \in IsrThresholdArgs : setAlertThreshold(t)
    \/ setAlertThreshold_ptr \/ setAlertThreshold_req \/ setAlertThreshold_write
    \/ clearAlertInterrupt \/ clearAlertInterrupt_write
    \/ sleep \/ sleep_write
    \/ wake \/ wake_write
    \/ interrupt \/ interrupt_tx \/ interrupt_rx
    \/ isr_return

\* A gauge constructed with a callback, lines 28-32.
IsrInit ==
    /\ Init
    /\ ic = MAX17048
    /\ devRcomp = DefaultRcomp
    /\ devStatus \in IsrStatuses

SpecIsr == IsrInit /\ [][IsrNext]_vars

(***************************************************************************)
(* The threshold codec on its own: encode as setAlertThreshold does, then  *)
(* decode as getAlertThreshold does, for every 8-bit argument.             *)
(***************************************************************************)
CodecInit ==
    /\ ic = MAX17048
    /\ devRcomp = DefaultRcomp
    /\ devStatus = DefaultStatus
    /\ devPtr = Unknown
    /\ pc = "codec"
    /\ stack = <<>>
    /\ retv = 0
    /\ comp = 0
    /\ thrd = 0
    /\ sleepBit = 0
    /\ op = "none"
    /\ arg \in 0..255
    /\ pre = [rcomp |-> devRcomp, status |-> devStatus]
    /\ log = <<>>
    /\ isr = <<>>
    /\ saved = NoFrame
    /\ wire = NoWire

\* Lines 120-122 on the argument.
codec_encode ==
    /\ pc = "codec"
    /\ thrd' = EncodeThreshold(arg)
    /\ pc' = "encoded"
    /\ UNCHANGED <<call, dev, stack, retv, comp, sleepBit, log, wire>>

\* Line 90 on the encoded threshold.
codec_decode ==
    /\ pc = "encoded"
    /\ retv' = DecodeThreshold(thrd)
    /\ pc' = "decoded"
    /\ UNCHANGED <<call, dev, stack, comp, thrd, sleepBit, log, wire>>

CodecNext == codec_encode \/ codec_decode

SpecCodec == CodecInit /\ [][CodecNext]_vars

(***************************************************************************)
(* Vocabulary of the properties                                            *)
(***************************************************************************)
BitOf(b, i) == (b \div (2 ^ i)) % 2
LowFive(b) == b % 32
Clamped(p) == IF p > 32 THEN 32 ELSE IF p < 1 THEN 1 ELSE p
\* (-percent) mod 32, the encoding of the register map.
Encoded(percent) == (32 - percent) % 32

Returned(name) == pc = "returned" /\ op = name
AllOk == \A i \in 1..Len(log) : log[i].ok
\* The call of name has returned and every bus transaction of it completed.
Succeeded(name) == Returned(name) /\ AllOk

ConfigWriters ==
    {"setCompensation", "setAlertThreshold", "clearAlertInterrupt", "sleep", "wake"}
WriteClass == ConfigWriters \cup {"quickStart", "reset"}

\* The bits of the CONFIG register outside the field a method is meant to
\* change: <<byte, bit>> with byte 1 the RCOMP byte and byte 2 the status byte.
StatusBits(S) == {<<2, i>> : i \in S}
RcompBits == {<<1, i>> : i \in 0..7}
FrameOf(name) ==
    CASE name = "setCompensation" -> StatusBits(0..7)
      [] name = "setAlertThreshold" -> RcompBits \cup StatusBits({5, 6, 7})
      [] name = "clearAlertInterrupt" -> RcompBits \cup StatusBits({0, 1, 2, 3, 4, 6, 7})
      [] name = "sleep" -> RcompBits \cup StatusBits(0..6)
      [] name = "wake" -> RcompBits \cup StatusBits(0..6)
BitBefore(k) == IF k[1] = 1 THEN BitOf(pre.rcomp, k[2]) ELSE BitOf(pre.status, k[2])
BitAfter(k) == IF k[1] = 1 THEN BitOf(devRcomp, k[2]) ELSE BitOf(devStatus, k[2])

\* The data writes of the call: the transactions that carry a register
\* address and two bytes.
DataWrites == {i \in 1..Len(log) : log[i].kind = "write" /\ Len(log[i].bytes) = 3}

(***************************************************************************)
(* C1                                                                      *)
(***************************************************************************)
\* C1 (as claimed): once a configuration-writing method has succeeded, every
\* bit of the CONFIG register outside the field the method is meant to change
\* has the value it had before the call.
C1_FramePreserved ==
    \A name \in ConfigWriters :
        Succeeded(name) => \A k \in FrameOf(name) : BitAfter(k) = BitBefore(k)

(***************************************************************************)
(* C2                                                                      *)
(***************************************************************************)
\* C2: once setAlertThreshold(p) has succeeded, the status byte decodes to p
\* clamped to 1..32, the RCOMP byte and bit 7 are as before the call, and the
\* data write carried the RCOMP byte unchanged and the sleep flag with the
\* encoding of the clamped p; and a getAlertThreshold that succeeds returns
\* the decoding of the status byte the gauge holds.
C2_SetThenReadThreshold ==
    /\ Succeeded("setAlertThreshold") =>
          /\ DecodeThreshold(devStatus) = Clamped(arg)
          /\ devRcomp = pre.rcomp
          /\ BitOf(devStatus, 7) = BitOf(pre.status, 7)
          /\ log[Len(log)].bytes =
                <<MAX1704X_CONFIG_ADDR, pre.rcomp,
                  128 * BitOf(pre.status, 7) + Encoded(Clamped(arg))>>
    /\ Succeeded("getAlertThreshold") => retv = 32 - LowFive(pre.status)

C2_Witness ==
    /\ Succeeded("setAlertThreshold")
    /\ arg = 10
    /\ pre = [rcomp |-> 151, status |-> 28]
    /\ log[Len(log)].bytes = <<12, 151, 22>>
    /\ DecodeThreshold(devStatus) = 10

(***************************************************************************)
(* C3                                                                      *)
(***************************************************************************)
\* C3: for every 8-bit t, decoding the encoding of t gives t clamped to
\* 1..32 (so t itself for t in 1..32); 0 and 1 have the same encoding, and
\* every t above 32 has the encoding of 32.
C3_CodecRoundTrip ==
    /\ pc \in {"encoded", "decoded"} =>
          /\ thrd = Encoded(Clamped(arg))
          /\ arg \in {0, 1} => thrd = 31
          /\ arg >= 32 => thrd = 0
    /\ pc = "decoded" =>
          /\ retv = Clamped(arg)
          /\ arg \in 1..32 => retv = arg

C3_Witness == pc = "decoded" /\ arg = 99 /\ thrd = 0 /\ retv = 32

(***************************************************************************)
(* C4                                                                      *)
(***************************************************************************)
\* C4: once sleep has succeeded the gauge reports sleeping (bit 7 of the
\* status byte is set), once wake has succeeded it does not; and a sleeping
\* call that succeeds returns whether bit 7 of the status byte is set.
C4_SleepWakeFlag ==
    /\ Succeeded("sleep") => SleepingValue(devStatus) /\ BitOf(devStatus, 7) = 1
    /\ Succeeded("wake") => ~SleepingValue(devStatus) /\ BitOf(devStatus, 7) = 0
    /\ Succeeded("sleeping") => (retv <=> BitOf(pre.status, 7) = 1)

C4_Witness ==
    /\ Succeeded("sleep")
    /\ BitOf(pre.status, 7) = 0
    /\ BitOf(pre.status, 5) = 1
    /\ BitOf(devStatus, 7) = 1

(***************************************************************************)
(* C5                                                                      *)
(***************************************************************************)
\* C5 (as claimed): once sleep or wake has succeeded, bits 4-0 of the status
\* byte and the RCOMP byte are as before the call, and the status byte
\* written is 0x80 | encoded threshold for sleep and 0x7F & encoded threshold
\* for wake.
C5_SleepWakeKeepThreshold ==
    /\ Succeeded("sleep") =>
          /\ LowFive(devStatus) = LowFive(pre.status)
          /\ devRcomp = pre.rcomp
          /\ log[Len(log)].bytes[3] = 128 + LowFive(pre.status)
    /\ Succeeded("wake") =>
          /\ LowFive(devStatus) = LowFive(pre.status)
          /\ devRcomp = pre.rcomp
          /\ log[Len(log)].bytes[3] = LowFive(pre.status)

(***************************************************************************)
(* C6                                                                      *)
(***************************************************************************)
\* C6: once clearAlertInterrupt has succeeded, bit 5 of the status byte is
\* clear, and bit 7, bits 4-0 and the RCOMP byte are as before the call.
C6_ClearAlert ==
    Succeeded("clearAlertInterrupt") =>
        /\ BitOf(devStatus, 5) = 0
        /\ BitOf(devStatus, 7) = BitOf(pre.status, 7)
        /\ LowFive(devStatus) = LowFive(pre.status)
        /\ devRcomp = pre.rcomp

C6_Witness ==
    /\ Succeeded("clearAlertInterrupt")
    /\ BitOf(pre.status, 5) = 1
    /\ BitOf(pre.status, 7) = 1
    /\ devStatus = pre.status - 32

(***************************************************************************)
(* C7                                                                      *)
(***************************************************************************)
\* C7: a setCompensation(v) that has returned made three transactions: the
\* pointer write and the one-byte read of the status byte, then one write of
\* the CONFIG address, v and the byte just read; once it has succeeded the
\* RCOMP byte is v and the status byte is what it was before the call.
C7_SetCompensation ==
    /\ Returned("setCompensation") =>
          /\ Len(log) = 3
          /\ log[1].kind = "write" /\ log[1].bytes = <<MAX1704X_ATHRD_ADDR>>
          /\ log[2].kind = "read" /\ log[2].n = 1
          /\ log[3].kind = "write"
          /\ log[3].bytes = <<MAX1704X_CONFIG_ADDR, arg,
                              IF log[2].ok THEN log[2].bytes[1] ELSE 255>>
    /\ Succeeded("setCompensation") =>
          /\ log[2].bytes = <<pre.status>>
          /\ devRcomp = arg
          /\ devStatus = pre.status

C7_Witness ==
    /\ Succeeded("setCompensation")
    /\ arg # pre.rcomp
    /\ pre.status = 188
    /\ devRcomp = arg
    /\ devStatus = 188

(***************************************************************************)
(* C8                                                                      *)
(***************************************************************************)
\* C8 (as claimed): once sleep has succeeded, bits 5 and 6 of the status byte
\* are clear, whatever the status byte was before the call.
C8_SleepClearsAlertBits ==
    Succeeded("sleep") => BitOf(devStatus, 5) = 0 /\ BitOf(devStatus, 6) = 0

(***************************************************************************)
(* C9                                                                      *)
(***************************************************************************)
\* The register a measurement method reads.
MeasuredRegister == IF op = "getVoltage" THEN MAX1704X_VCELL_ADDR ELSE MAX1704X_SOC_ADDR

\* C9: in every call of getVoltage and getSOC the transactions come in the
\* order reset command, quick-start command, pointer write of the register
\* measured, two-byte read: nothing else is sent, the read is never made
\* before both commands were sent, and a call that has returned has made all
\* four.
C9_MeasurementOrder ==
    op \in {"getVoltage", "getSOC"} =>
        /\ Len(log) <= 4
        /\ Len(log) >= 1 =>
              log[1].kind = "write" /\ log[1].bytes = <<MAX1704X_COMMAND_ADDR, 84, 0>>
        /\ Len(log) >= 2 =>
              log[2].kind = "write" /\ log[2].bytes = <<MAX1704X_MODE_ADDR, 64, 0>>
        /\ Len(log) >= 3 =>
              log[3].kind = "write" /\ log[3].bytes = <<MeasuredRegister>>
        /\ Len(log) >= 4 => log[4].kind = "read" /\ log[4].n = 2
        /\ pc = "returned" => Len(log) = 4

C9_Witness ==
    /\ Returned("getSOC")
    /\ Len(log) = 4
    /\ log[4].kind = "read"
    /\ log[4].ok
    /\ ~log[1].ok

(***************************************************************************)
(* C10                                                                     *)
(***************************************************************************)
\* C10: a write-class method that has returned made exactly one data write,
\* as its last transaction, and returned the completion code of that
\* transaction, zero or not.
C10_WriteOnceCodeReturned ==
    \A name \in WriteClass :
        Returned(name) =>
            /\ DataWrites = {Len(log)}
            /\ retv = log[Len(log)].code

C10_Witness ==
    /\ Returned("clearAlertInterrupt")
    /\ DataWrites = {5}
    /\ log[5].code = 2
    /\ retv = 2
    /\ devStatus = pre.status
    /\ BitOf(pre.status, 5) = 1

(***************************************************************************)
(* C11                                                                     *)
(***************************************************************************)
\* C11 (as claimed): a write-class method in which any bus transaction
\* failed, the pointer writes and reads before the write-back included,
\* returns a non-zero code.
C11_FailuresReported ==
    \A name \in WriteClass : (Returned(name) /\ ~AllOk) => retv # 0

(***************************************************************************)
(* C12                                                                     *)
(***************************************************************************)
\* C12: when the pointer write of VCELL and the two-byte read
\* complete and deliver (hi, lo), getVoltage returns (hi << 4) + (lo >> 4)
\* times 1250 microvolts times the multiplier of the gauge type.
C12_VoltageFromBytes ==
    (Returned("getVoltage") /\ log[3].ok /\ log[4].ok) =>
        retv = (16 * log[4].bytes[1] + (log[4].bytes[2] \div 16)) * 1250 * ic

C12_Witness ==
    /\ Succeeded("getVoltage")
    /\ ic = MAX17049
    /\ log[4].bytes = <<128, 0>>
    /\ retv = 5120000

(***************************************************************************)
(* C13                                                                     *)
(***************************************************************************)
\* C13: when the pointer write of SOC and the two-byte read
\* complete and deliver (hi, lo), getSOC returns 256 * hi + lo units of
\* 1/256 percent, hi being the first byte read and lo the second.
C13_SOCFromBytes ==
    (Returned("getSOC") /\ log[3].ok /\ log[4].ok) =>
        retv = 256 * log[4].bytes[1] + log[4].bytes[2]

C13_Witness ==
    /\ Succeeded("getSOC")
    /\ log[4].bytes = <<128, 0>>
    /\ retv = 32768

(***************************************************************************)
(* C14                                                                     *)
(***************************************************************************)
Getters == {"getVersion", "getCompensation", "getAlertThreshold", "sleeping"}

\* C14: throughout a call of getVersion, getCompensation, getAlertThreshold
\* (and the getStatus it calls) or sleeping, every write transaction carries a
\* register pointer alone, so neither command is sent, and the CONFIG
\* register holds what it held when the method was called.
C14_GettersLeaveGauge ==
    op \in Getters =>
        /\ \A i \in 1..Len(log) :
              log[i].kind = "write" =>
                  /\ Len(log[i].bytes) = 1
                  /\ log[i].bytes[1] \notin {MAX1704X_COMMAND_ADDR, MAX1704X_MODE_ADDR}
        /\ devRcomp = pre.rcomp
        /\ devStatus = pre.status

C14_Witness ==
    /\ Succeeded("getVersion")
    /\ Len(log) = 2
    /\ pre.status = 156
    /\ devStatus = 156

(***************************************************************************)
(* C15                                                                     *)
(***************************************************************************)
\* C15: a getAlertThreshold that succeeds returns 32 minus the value of bits
\* 4-0 of the status byte the gauge holds, that is ((~status) & 0x1F) + 1: a
\* number in 1..32 that bits 7, 6 and 5 have no part in.
C15_ThresholdOfStatus ==
    Succeeded("getAlertThreshold") =>
        /\ retv = 31 - (pre.status % 32) + 1
        /\ retv \in 1..32

C15_Witness ==
    /\ Succeeded("getAlertThreshold")
    /\ pre.status = 252
    /\ retv = 4

(***************************************************************************)
(* C16                                                                     *)
(***************************************************************************)
\* C16: a quickStart that has returned made one transaction, a write to
\* address 0x36 of the bytes 0x06, 0x40, 0x00; a reset that has returned made
\* one transaction, a write to address 0x36 of the bytes 0xFE, 0x54, 0x00;
\* neither reads.
C16_CommandBytes ==
    /\ Returned("quickStart") =>
          /\ Len(log) = 1
          /\ log[1].kind = "write"
          /\ log[1].bytes = <<6, 64, 0>>
          /\ WireCalls(log[1])[1] =
                [call |-> "beginTransmission", addr |-> 54, val |-> 0]
    /\ Returned("reset") =>
          /\ Len(log) = 1
          /\ log[1].kind = "write"
          /\ log[1].bytes = <<254, 84, 0>>
          /\ WireCalls(log[1])[1] =
                [call |-> "beginTransmission", addr |-> 54, val |-> 0]

C16_Witness ==
    /\ Succeeded("quickStart")
    /\ log[1].bytes = <<6, 64, 0>>
    /\ devStatus = pre.status
    /\ pre.status = 156

(***************************************************************************)
(* C18                                                                     *)
(***************************************************************************)
\* C18: once getVoltage or getSOC has succeeded, the CONFIG register holds
\* its power-on value whatever it held before: the threshold decodes to 4,
\* the RCOMP byte is 0x97 and the sleep flag is clear.
C18_MeasurementResetsConfig ==
    \A name \in {"getVoltage", "getSOC"} :
        Succeeded(name) =>
            /\ devRcomp = 151
            /\ DecodeThreshold(devStatus) = 4
            /\ ~SleepingValue(devStatus)
            /\ devStatus = 28

C18_Witness ==
    /\ Succeeded("getVoltage")
    /\ pre.status = 150
    /\ pre.rcomp = 0
    /\ devStatus = 28
    /\ devRcomp = 151

(***************************************************************************)
(* C17                                                                     *)
(***************************************************************************)
Config == [rcomp |-> devRcomp, status |-> devStatus]

\* C17 (as claimed): when the alert callback has run a configuration-writing
\* method during a configuration-writing method of the main context, and
\* every transaction completed, the CONFIG register at the return holds what
\* the two methods leave when run one after the other, in one of the two
\* orders.
C17_NoTornUpdate ==
    (pc = "returned" /\ op \in ConfigWriters /\ Len(isr) = 1 /\ AllOk) =>
        Config \in {Effect(isr[1].name, isr[1].arg, Effect(op, arg, pre)),
                    Effect(op, arg, Effect(isr[1].name, isr[1].arg, pre))}

(***************************************************************************)
(* C19                                                                     *)
(***************************************************************************)
\* C19: when sleep(), wake() and getAlertThreshold() are called one after the
\* other and every transaction completes, getAlertThreshold returns the
\* percent the status byte before sleep() decodes to, the RCOMP byte is what
\* it was and the sleep flag is clear.
C19_SleepWakeRestores ==
    Succeeded("sleep_wake") =>
        /\ retv = 32 - (pre.status % 32)
        /\ devRcomp = pre.rcomp
        /\ BitOf(devStatus, 7) = 0

C19_Witness ==
    /\ Succeeded("sleep_wake")
    /\ pre.status = 54
    /\ pre.rcomp = 0
    /\ retv = 10
    /\ Len(log) = 12

(***************************************************************************)
(* C20                                                                     *)
(***************************************************************************)
RECURSIVE Flatten(_)
Flatten(l) == IF l = <<>> THEN <<>> ELSE WireCalls(Head(l)) \o Flatten(Tail(l))

\* The calls of the Wire library the running method has made, in order.
BusCalls == Flatten(log)

\* The registers a method reads, in the order it reads them.
ReadPlan(name) ==
    CASE name = "getVoltage" -> <<2>>
      [] name = "getSOC" -> <<4>>
      [] name = "getVersion" -> <<8>>
      [] name = "getCompensation" -> <<12>>
      [] name \in {"getAlertThreshold", "sleeping", "setCompensation"} -> <<13>>
      [] name = "setAlertThreshold" -> <<12>>
      [] name \in {"clearAlertInterrupt", "sleep", "wake"} -> <<12, 13>>
      [] OTHER -> <<>>

\* C20: in every method the calls on the bus are to address 0x36; a
\* beginTransmission is followed by writes and its endTransmission before any
\* requestFrom or other beginTransmission; a requestFrom comes right after a
\* closed write transaction of one byte, the pointer of the register the
\* method reads at that place; no transmission is open at the return.
C20_WellFormed ==
    LET b == BusCalls
        reads(j) == Cardinality({i \in 1..j : b[i].call = "requestFrom"})
    IN /\ \A j \in 1..Len(b) : b[j].addr = 54
       /\ \A j \in 1..Len(b) :
             b[j].call = "beginTransmission" =>
                 \E k \in (j + 1)..Len(b) :
                     /\ b[k].call = "endTransmission"
                     /\ \A i \in (j + 1)..(k - 1) : b[i].call = "write"
       /\ \A j \in 1..Len(b) :
             b[j].call \in {"write", "endTransmission"} =>
                 /\ j > 1
                 /\ b[j - 1].call \in {"beginTransmission", "write"}
       /\ \A j \in 1..Len(b) :
             b[j].call = "requestFrom" =>
                 /\ j >= 4
                 /\ b[j - 1].call = "endTransmission"
                 /\ b[j - 2].call = "write"
                 /\ b[j - 3].call = "beginTransmission"
                 /\ reads(j) <= Len(ReadPlan(op))
                 /\ b[j - 2].val = ReadPlan(op)[reads(j)]
       /\ pc = "returned" =>
             /\ b # <<>>
             /\ b[Len(b)].call \in {"endTransmission", "requestFrom"}

C20_Witness ==
    /\ Succeeded("setAlertThreshold")
    /\ Len(BusCalls) = 9
    /\ BusCalls[3] = [call |-> "endTransmission", addr |-> 54, val |-> 0]
    /\ BusCalls[4] = [call |-> "requestFrom", addr |-> 54, val |-> 2]
    /\ BusCalls[9].call = "endTransmission"

====
